---- MODULE Spec2Model ----
(***************************************************************************)
(* Model of email_classifier_template.py: the classification / response /  *)
(* dispatch pipeline of EmailAutomationSystem.process_email and the batch   *)
(* loop of run_demonstration.                                               *)
(*                                                                          *)
(* A Python str is modelled as a sequence of fragments whose concatenation  *)
(* is the string.  Texts that the code trims or lower-cases (the replies of *)
(* the completion service, the category names) are written one character    *)
(* per fragment; texts that are only passed along (ids, subjects, bodies)   *)
(* are a single fragment.  Python's None is the value None below.           *)
(***************************************************************************)
EXTENDS Integers, Sequences, FiniteSets, TLC

VARIABLES
    last,       \* the last direct call of process_email: inputs and outcome
    pc,         \* position of run_demonstration: "loop", "done"
    i,          \* run_demonstration: index of the next element of sample_emails
    results,    \* run_demonstration: the list `results`
    trace,      \* the calls made so far by run_demonstration's pipeline
    df          \* run_demonstration: the rows of the returned DataFrame

vars == <<last, pc, i, results, trace, df>>

None == <<"<None>">>

(***************************************************************************)
(* Bounds                                                                   *)
(***************************************************************************)
\* greatest number of whitespace characters put on each side of a reply text
MaxPad == 1

(***************************************************************************)
(* str.strip() and str.lower()                                              *)
(***************************************************************************)
Whitespace == {" ", "\t", "\n", "\r", "\f"}

UpperCase == <<"A","B","C","D","E","F","G","H","I","J","K","L","M",
               "N","O","P","Q","R","S","T","U","V","W","X","Y","Z">>
LowerCase == <<"a","b","c","d","e","f","g","h","i","j","k","l","m",
               "n","o","p","q","r","s","t","u","v","w","x","y","z">>

lower_char(c) ==
    IF \E k \in 1..26 : UpperCase[k] = c
    THEN LowerCase[CHOOSE k \in 1..26 : UpperCase[k] = c]
    ELSE c

lower(s) == [k \in 1..Len(s) |-> lower_char(s[k])]

RECURSIVE lstrip(_)
lstrip(s) ==
    IF s /= <<>> /\ Head(s) \in Whitespace THEN lstrip(Tail(s)) ELSE s

RECURSIVE rstrip(_)
rstrip(s) ==
    IF s /= <<>> /\ s[Len(s)] \in Whitespace
    THEN rstrip(SubSeq(s, 1, Len(s) - 1))
    ELSE s

strip(s) == rstrip(lstrip(s))

(***************************************************************************)
(* Module data                                                              *)
(***************************************************************************)
complaint       == <<"c","o","m","p","l","a","i","n","t">>
inquiry         == <<"i","n","q","u","i","r","y">>
feedback        == <<"f","e","e","d","b","a","c","k">>
support_request == <<"s","u","p","p","o","r","t","_","r","e","q","u","e","s","t">>
other           == <<"o","t","h","e","r">>

\* the "from" and "timestamp" keys are never read by the code and are left out
sample_emails == <<
    [id |-> <<"001">>,
     subject |-> <<"Broken product received">>,
     body |-> <<"I received my order #12345 yesterday but it arrived completely damaged. This is unacceptable and I demand a refund immediately. This is the worst customer service I've experienced.">>],
    [id |-> <<"002">>,
     subject |-> <<"Question about product specifications">>,
     body |-> <<"Hi, I'm interested in buying your premium package but I couldn't find information about whether it's compatible with Mac OS. Could you please clarify this? Thanks!">>],
    [id |-> <<"003">>,
     subject |-> <<"Amazing customer support">>,
     body |-> <<"I just wanted to say thank you for the excellent support I received from Sarah on your team. She went above and beyond to help resolve my issue. Keep up the great work!">>],
    [id |-> <<"004">>,
     subject |-> <<"Need help with installation">>,
     body |-> <<"I've been trying to install the software for the past hour but keep getting error code 5123. I've already tried restarting my computer and clearing the cache. Please help!">>],
    [id |-> <<"005">>,
     subject |-> <<"Partnership opportunity">>,
     body |-> <<"Our company is interested in exploring potential partnership opportunities with your organization. Would it be possible to schedule a call next week to discuss this further?">>] >>

(***************************************************************************)
(* The completion service.  A call of client.chat.completions.create either *)
(* raises or returns a message whose content is a text or None.             *)
(***************************************************************************)
Raises      == [raises |-> TRUE,  content |-> None]
Returns(t)  == [raises |-> FALSE, content |-> t]

\* a call of a function, as recorded in a trace
Call(fn, email, args, ret) ==
    [fn |-> fn, email_id |-> email["id"], args |-> args, ret |-> ret]

(***************************************************************************)
(* EmailProcessor                                                           *)
(***************************************************************************)
\* variant: "urgent" accepted as a sixth category
valid_categories_with_urgent ==
    {complaint, inquiry, feedback, support_request, other,
     <<"u","r","g","e","n","t">>}

valid_categories == {complaint, inquiry, feedback, support_request, other}

\* variant: the label is returned without the membership test
classify_email_unvalidated(email, reply) ==
    IF ~ ({"subject", "body"} \subseteq DOMAIN email) THEN None
    ELSE IF reply.raises THEN None
    ELSE IF reply.content = None THEN None
    ELSE lower(strip(reply.content))

\* reply: the outcome of the completion call, should the call be reached
classify_email(email, reply) ==
    IF ~ ({"subject", "body"} \subseteq DOMAIN email) THEN None  \* KeyError
    ELSE IF reply.raises THEN None
    ELSE IF reply.content = None THEN None       \* AttributeError on None.strip()
    ELSE LET classification == lower(strip(reply.content))
         IN  IF classification \in valid_categories
             THEN classification
             ELSE None

every_category ==
    [c \in {complaint, inquiry, feedback, support_request, other} |->
        CASE c = complaint       -> "Write a polite mail for a customer complaint."
          [] c = inquiry         -> "write a polite mail for a customer inquiry. "
          [] c = feedback        -> "write a polite mail for a feedback."
          [] c = support_request -> "write a polite mail for a customer support request."
          [] c = other           -> "Write a generic response for uncategorized emails."]

generate_response(email, classification, reply) ==
    IF classification \notin DOMAIN every_category THEN None     \* KeyError
    ELSE IF ~ ({"subject", "body"} \subseteq DOMAIN email) THEN None
    ELSE IF reply.raises THEN None
    ELSE IF reply.content = None THEN None
    ELSE strip(reply.content)

(***************************************************************************)
(* Mock services: each only logs; the call is what a trace records.         *)
(***************************************************************************)
send_complaint_response(email, response) ==
    Call("send_complaint_response", email, <<response>>, None)

send_standard_response(email, response) ==
    Call("send_standard_response", email, <<response>>, None)

create_urgent_ticket(email, category, context) ==
    Call("create_urgent_ticket", email, <<category, context>>, None)

create_support_ticket(email, context) ==
    Call("create_support_ticket", email, <<context>>, None)

(***************************************************************************)
(* EmailAutomationSystem: the handlers, each the sequence of its calls      *)
(***************************************************************************)
\* variant: the complaint handler opens no ticket
_handle_complaint_reply_only(email, response) ==
    << send_complaint_response(email, response) >>

_handle_complaint(email, response) ==
    << send_complaint_response(email, response),
       create_urgent_ticket(email, complaint, <<"Subject: ">> \o email["subject"]) >>

_handle_inquiry(email, response) ==
    << send_standard_response(email, response) >>

_handle_feedback(email, response) ==
    << send_standard_response(email, response) >>

_handle_support_request(email, response) ==
    << send_standard_response(email, response),
       create_support_ticket(email, <<"Subject: ">> \o email["subject"]) >>

_handle_other(email, response) ==
    << send_standard_response(email, response) >>

response_handlers ==
    [c \in {complaint, inquiry, feedback, support_request, other} |->
        CASE c = complaint       -> "_handle_complaint"
          [] c = inquiry         -> "_handle_inquiry"
          [] c = feedback        -> "_handle_feedback"
          [] c = support_request -> "_handle_support_request"
          [] c = other           -> "_handle_other"]

\* handler(email, response) for a handler found in response_handlers
handler_call(handler, email, response) ==
    CASE handler = "_handle_complaint"       -> _handle_complaint(email, response)
      [] handler = "_handle_inquiry"         -> _handle_inquiry(email, response)
      [] handler = "_handle_feedback"        -> _handle_feedback(email, response)
      [] handler = "_handle_support_request" -> _handle_support_request(email, response)
      [] handler = "_handle_other"           -> _handle_other(email, response)

(***************************************************************************)
(* EmailAutomationSystem.process_email                                      *)
(*                                                                          *)
(* The value is what the call does: the exception that leaves it ("none"    *)
(* when it returns), the dict `result` (returned when nothing is raised),   *)
(* and the calls it made, in order.                                         *)
(***************************************************************************)
initial_result ==
    [email_id |-> None, success |-> FALSE, classification |-> None,
     response_sent |-> FALSE]

\* variant: result["classification"] is never assigned
success_result_without_category(result, email_id, classification) ==
    [result EXCEPT !.response_sent = TRUE,
                   !.email_id = email_id,
                   !.success = TRUE]

\* variant: result["response_sent"] is never assigned
success_result_without_response_sent(result, email_id, classification) ==
    [result EXCEPT !.email_id = email_id,
                   !.classification = classification,
                   !.success = TRUE]

\* the assignments made once the handler has returned
success_result(result, email_id, classification) ==
    [result EXCEPT !.response_sent = TRUE,
                   !.email_id = email_id,
                   !.classification = classification,
                   !.success = TRUE]

Returned(result, calls) == [raised |-> "none", result |-> result, calls |-> calls]

\* the except clause: it formats email_id into the log line and falls
\* through to `return result`; email_id is unbound when email["id"] raised
except_clause(email_id_bound, result, calls) ==
    IF email_id_bound
    THEN Returned(result, calls)
    ELSE [raised |-> "UnboundLocalError", result |-> result, calls |-> calls]

\* variant: result["classification"] is assigned as soon as the classifier returns
process_email_retains_category(email, classifier_reply, responder_reply) ==
    LET result == initial_result IN
    IF "id" \notin DOMAIN email
    THEN except_clause(FALSE, result, <<>>)                      \* KeyError
    ELSE
    LET email_id == email["id"] IN
    IF email_id = None
    THEN except_clause(TRUE, result, <<>>)                       \* ValueError
    ELSE
    LET classification == classify_email(email, classifier_reply)
        calls1 == << Call("classify_email", email, <<>>, classification) >>
    IN
    IF classification = None
    THEN except_clause(TRUE, result, calls1)                     \* ValueError
    ELSE
    LET classified == [result EXCEPT !.classification = classification]
        response == generate_response(email, classification, responder_reply)
        calls2 == Append(calls1,
                    Call("generate_response", email, <<classification>>, response))
    IN
    IF response = None
    THEN except_clause(TRUE, classified, calls2)                     \* ValueError
    ELSE
    IF classification \notin DOMAIN response_handlers
    THEN except_clause(TRUE, classified, calls2)                     \* ValueError
    ELSE
    LET handler == response_handlers[classification] IN
    Returned(success_result(classified, email_id, classification),
             calls2 \o handler_call(handler, email, response))

process_email(email, classifier_reply, responder_reply) ==
    LET result == initial_result IN
    IF "id" \notin DOMAIN email
    THEN except_clause(FALSE, result, <<>>)                      \* KeyError
    ELSE
    LET email_id == email["id"] IN
    IF email_id = None
    THEN except_clause(TRUE, result, <<>>)                       \* ValueError
    ELSE
    LET classification == classify_email(email, classifier_reply)
        calls1 == << Call("classify_email", email, <<>>, classification) >>
    IN
    IF classification = None
    THEN except_clause(TRUE, result, calls1)                     \* ValueError
    ELSE
    LET response == generate_response(email, classification, responder_reply)
        calls2 == Append(calls1,
                    Call("generate_response", email, <<classification>>, response))
    IN
    IF response = None
    THEN except_clause(TRUE, result, calls2)                     \* ValueError
    ELSE
    IF classification \notin DOMAIN response_handlers
    THEN except_clause(TRUE, result, calls2)                     \* ValueError
    ELSE
    LET handler == response_handlers[classification] IN
    Returned(success_result(result, email_id, classification),
             calls2 \o handler_call(handler, email, response))

(***************************************************************************)
(* Inputs                                                                   *)
(***************************************************************************)
\* email records handed to process_email: two of the sample emails, one whose
\* "id" is None, one with no "id" key, one with no "subject" key
EmailRecords ==
    { sample_emails[1],
      sample_emails[4],
      [sample_emails[2] EXCEPT !.id = None],
      [subject |-> sample_emails[3].subject, body |-> sample_emails[3].body],
      [id |-> sample_emails[5].id, body |-> sample_emails[5].body] }

RECURSIVE Repeat(_, _)
Repeat(c, n) == IF n = 0 THEN <<>> ELSE <<c>> \o Repeat(c, n - 1)

\* a text with up to MaxPad spaces before it and up to MaxPad newlines after it
Padded(text) ==
    { Repeat(" ", l) \o text \o Repeat("\n", r) : l \in 0..MaxPad, r \in 0..MaxPad }

urgent == <<"u","r","g","e","n","t">>

ClassifierTexts ==
    { complaint, inquiry, feedback, support_request, other,
      <<"C","o","m","p","l","a","i","n","t">>,
      <<"O","T","H","E","R">>,
      <<"s","u","p","p","o","r","t"," ","r","e","q","u","e","s","t">>,
      <<"c","o","m","p","l","a","i","n","t",".">>,
      urgent,
      <<>> }

ResponderTexts ==
    { <<"T","h","a","n","k"," ","y","o","u",".">>, <<"O","k">>, <<>> }

ClassifierReplies ==
    {Raises, Returns(None)} \cup { Returns(t) : t \in UNION { Padded(w) : w \in ClassifierTexts } }

ResponderReplies ==
    {Raises, Returns(None)} \cup { Returns(t) : t \in UNION { Padded(w) : w \in ResponderTexts } }

\* the replies tried on each email of the batch
BatchClassifierReplies ==
    {Raises} \cup { Returns(t) : t \in valid_categories \cup {urgent} }

BatchResponderReplies == { Raises, Returns(<<"O","k">>) }

(***************************************************************************)
(* Direct calls of process_email on any record                              *)
(***************************************************************************)
NotRun == "not run"

Init ==
    /\ last \in [email : EmailRecords, classifier_reply : ClassifierReplies,
                 responder_reply : ResponderReplies, called : {FALSE},
                 out : {Returned(initial_result, <<>>)}]
    /\ pc = NotRun
    /\ i = 1
    /\ results = <<>>
    /\ trace = <<>>
    /\ df = <<>>

ProcessEmail ==
    /\ pc = NotRun
    /\ ~ last.called
    /\ last' = [last EXCEPT
                  !.called = TRUE,
                  !.out = process_email(last.email, last.classifier_reply,
                                        last.responder_reply)]
    /\ UNCHANGED <<pc, i, results, trace, df>>

Next == ProcessEmail

Spec == Init /\ [][Next]_vars

(***************************************************************************)
(* run_demonstration                                                        *)
(***************************************************************************)
InitDemo ==
    /\ last = <<>>
    /\ pc = "loop"
    /\ i = 1
    /\ results = <<>>
    /\ trace = <<>>
    /\ df = <<>>

\* variant: only the results of successful emails are appended
LoopBody_skips_failures ==
    /\ pc = "loop"
    /\ i <= Len(sample_emails)
    /\ \E classifier_reply \in BatchClassifierReplies,
          responder_reply \in BatchResponderReplies :
         LET email == sample_emails[i]
             out == process_email(email, classifier_reply, responder_reply)
         IN  /\ trace' = trace \o out.calls
             /\ results' = IF out.result.success
                           THEN Append(results, out.result)
                           ELSE results
             /\ i' = i + 1
             /\ pc' = pc
    /\ UNCHANGED <<last, df>>

\* one iteration of `for email in sample_emails`; every sample email has an
\* "id", so neither the log line of the loop nor process_email raises
LoopBody ==
    /\ pc = "loop"
    /\ i <= Len(sample_emails)
    /\ \E classifier_reply \in BatchClassifierReplies,
          responder_reply \in BatchResponderReplies :
         LET email == sample_emails[i]
             out == process_email(email, classifier_reply, responder_reply)
         IN  /\ trace' = trace \o out.calls
             /\ IF "id" \in DOMAIN email /\ out.raised = "none"
                THEN /\ results' = Append(results, out.result)
                     /\ i' = i + 1
                     /\ pc' = pc
                ELSE /\ pc' = "raised"
                     /\ UNCHANGED <<results, i>>
    /\ UNCHANGED <<last, df>>

\* the loop is over: df = pd.DataFrame(results); return df
Summary ==
    /\ pc = "loop"
    /\ i > Len(sample_emails)
    /\ df' = results
    /\ pc' = "done"
    /\ UNCHANGED <<last, i, results, trace>>

NextDemo == LoopBody \/ Summary

SpecDemo == InitDemo /\ [][NextDemo]_vars

(***************************************************************************)
(* Vocabulary of the properties                                             *)
(***************************************************************************)
FiveCategories == {complaint, inquiry, feedback, support_request, other}

SinkNames == {"send_complaint_response", "send_standard_response",
              "create_urgent_ticket", "create_support_ticket"}

IsClassify(c) == c.fn = "classify_email"
IsRespond(c)  == c.fn = "generate_response"
IsSink(c)     == c.fn \in SinkNames

\* the direct call has been made and has returned its result
HasReturned == last.called /\ last.out.raised = "none"

ClassifyCalls == SelectSeq(last.out.calls, IsClassify)
RespondCalls  == SelectSeq(last.out.calls, IsRespond)
SinkCalls     == SelectSeq(last.out.calls, IsSink)

\* the classifier was called and returned one of the five categories
ClassifiedValid ==
    ClassifyCalls /= <<>> /\ ClassifyCalls[1].ret \in FiveCategories

\* the responder was called and returned a response
Responded == RespondCalls /= <<>> /\ RespondCalls[1].ret /= None

\* the email of the direct call has no identifier: no "id" key, or None
IdentifierMissing ==
    "id" \notin DOMAIN last.email \/ last.email["id"] = None

\* some step of the pipeline failed for the email of the direct call
StepFailed ==
    \/ IdentifierMissing
    \/ ClassifyCalls /= <<>> /\ ClassifyCalls[1].ret = None
    \/ RespondCalls /= <<>> /\ RespondCalls[1].ret = None

\* C1: whatever record process_email is given (no "id" key and "id" None
\* included) and whatever step fails, the call raises nothing and returns a
\* result with success = false.
C1_FailureIsReturned ==
    (last.called /\ StepFailed) =>
        (last.out.raised = "none" /\ ~ last.out.result.success)

\* C2 as stated: a returned result carries a category exactly when the
\* classifier returned a valid category, also when a later step failed.
C2_CategoryIffClassified ==
    HasReturned =>
        (last.out.result.classification /= None <=> ClassifiedValid)

\* C2 as amended: a returned result carries a category exactly when the
\* classifier returned a valid category and the responder returned a
\* response, and it is then the classifier's category; after a valid
\* classification and a failed response generation the category is None.
C2_CategoryIffResponded ==
    HasReturned =>
        /\ last.out.result.classification /= None <=> (ClassifiedValid /\ Responded)
        /\ last.out.result.classification /= None =>
               last.out.result.classification = ClassifyCalls[1].ret
        /\ (ClassifiedValid /\ ~ Responded) =>
               last.out.result.classification = None

C2_Witness ==
    HasReturned /\ ClassifiedValid /\ RespondCalls /= <<>> /\ ~ Responded

\* C3: when the completion call of generate_response returns a text that is
\* empty once trimmed, no sink is called and the result has success = false
\* and response_sent = false.
C3_EmptyResponseFails ==
    ( /\ HasReturned
      /\ RespondCalls /= <<>>
      /\ ~ last.responder_reply.raises
      /\ last.responder_reply.content /= None
      /\ strip(last.responder_reply.content) = <<>> )
    => ( /\ SinkCalls = <<>>
         /\ ~ last.out.result.success
         /\ ~ last.out.result.response_sent )

\* C4: for an email without identifier process_email returns a result with
\* success = false and calls neither classifier, responder nor sink.
C4_MissingIdFailsEarly ==
    (last.called /\ IdentifierMissing) =>
        /\ last.out.raised = "none"
        /\ ~ last.out.result.success
        /\ last.out.calls = <<>>

\* C6: a returned result has success = true exactly when the classifier
\* returned a valid category, the responder returned a response and the
\* handler of the category made its calls; the result is then the email's
\* id, success, the classifier's category and response_sent.
C6_SuccessIffAllSteps ==
    HasReturned =>
        /\ last.out.result.success <=>
               (ClassifiedValid /\ Responded /\ SinkCalls /= <<>>)
        /\ last.out.result.success =>
               last.out.result =
                   [email_id |-> last.email["id"], success |-> TRUE,
                    classification |-> ClassifyCalls[1].ret,
                    response_sent |-> TRUE]

C6_Witness ==
    HasReturned /\ last.out.result.success
        /\ last.out.result.classification = feedback

\* C7: when the classifier's output, trimmed and lower-cased, is none of the
\* five categories, the result has success = false, classification = None
\* and response_sent = false, and neither generate_response nor a sink is
\* called.
ClassifierOutputInvalid ==
    /\ ClassifyCalls /= <<>>
    /\ ~ last.classifier_reply.raises
    /\ last.classifier_reply.content /= None
    /\ lower(strip(last.classifier_reply.content)) \notin FiveCategories

C7_InvalidCategoryStops ==
    (last.called /\ ClassifierOutputInvalid) =>
        /\ last.out.raised = "none"
        /\ ~ last.out.result.success
        /\ last.out.result.classification = None
        /\ ~ last.out.result.response_sent
        /\ RespondCalls = <<>>
        /\ SinkCalls = <<>>

C7_Witness ==
    last.called /\ ClassifierOutputInvalid
        /\ strip(last.classifier_reply.content) = urgent

\* C8: a successful dispatch makes the sink calls its category fixes, in
\* order: complaint a reply then an urgent ticket, support_request a reply
\* then a support ticket, the other three a reply only; every sink call
\* carries the id of the email.
ExpectedSinks(category) ==
    CASE category = complaint ->
             <<"send_complaint_response", "create_urgent_ticket">>
      [] category = support_request ->
             <<"send_standard_response", "create_support_ticket">>
      [] OTHER -> <<"send_standard_response">>

C8_SinkSequence ==
    (HasReturned /\ last.out.result.success) =>
        /\ [k \in 1..Len(SinkCalls) |-> SinkCalls[k].fn] =
               ExpectedSinks(last.out.result.classification)
        /\ \A k \in 1..Len(SinkCalls) :
               SinkCalls[k].email_id = last.email["id"]

C8_Witness ==
    HasReturned /\ last.out.result.success
        /\ last.out.result.classification = complaint
        /\ Len(SinkCalls) = 2

\* C10: a returned result is all or nothing: the four fields hold their
\* success values, or the four hold their initial values.
C10_AllOrNothing ==
    HasReturned =>
        LET r == last.out.result IN
        \/ /\ r.email_id /= None
           /\ r.classification /= None
           /\ r.response_sent
           /\ r.success
        \/ /\ r.email_id = None
           /\ r.classification = None
           /\ ~ r.response_sent
           /\ ~ r.success

C10_Witness ==
    HasReturned /\ ClassifiedValid /\ ~ last.out.result.success
        /\ last.out.result.email_id = None

(***************************************************************************)
(* Properties of the batch                                                  *)
(***************************************************************************)
N == Len(sample_emails)

\* the calls of the trace made for the k-th sample email
Segment(k) ==
    LET Mine(c) == c.email_id = sample_emails[k].id
    IN  SelectSeq(trace, Mine)

Position(id) == CHOOSE k \in 1..N : sample_emails[k].id = id

ClassificationFailures ==
    { k \in 1..N : \E p \in 1..Len(Segment(k)) :
                      IsClassify(Segment(k)[p]) /\ Segment(k)[p].ret = None }

ResponseFailures ==
    { k \in 1..N : \E p \in 1..Len(Segment(k)) :
                      IsRespond(Segment(k)[p]) /\ Segment(k)[p].ret = None }

\* C5: the batch never stops early; the report has one result per sample
\* email, the k-th for the k-th email; when exactly one email fails at
\* classification and no other step fails, N - 1 results have success = true.
C5_BatchReport ==
    /\ pc \in {"loop", "done"}
    /\ Len(results) = i - 1
    /\ pc = "done" =>
        /\ Len(df) = N
        /\ \A k \in 1..N :
              /\ df[k].email_id \in {None, sample_emails[k].id}
              /\ df[k].success <=>
                    (\E p \in 1..Len(Segment(k)) : IsSink(Segment(k)[p]))
        /\ (Cardinality(ClassificationFailures) = 1 /\ ResponseFailures = {}) =>
              Cardinality({ k \in 1..N : df[k].success }) = N - 1

C5_Witness ==
    /\ pc = "done"
    /\ ClassificationFailures = {2}
    /\ ResponseFailures = {}
    /\ df[3].success

\* C9: the trace of the batch is the per-email traces in input order; each
\* is classify, then respond only after a valid category, then sinks only
\* after a response, with one classifier call and at most one responder call.
C9_TraceShape ==
    /\ \A p, q \in 1..Len(trace) :
          p < q => Position(trace[p].email_id) <= Position(trace[q].email_id)
    /\ \A k \in 1..N :
          LET seg == Segment(k) IN
          /\ (k < i) <=> (seg /= <<>>)
          /\ Len(seg) >= 1 => IsClassify(seg[1])
          /\ Len(seg) >= 2 =>
                /\ seg[1].ret \in FiveCategories
                /\ IsRespond(seg[2])
                /\ seg[2].args = <<seg[1].ret>>
          /\ Len(seg) >= 3 =>
                /\ seg[2].ret /= None
                /\ \A p \in 3..Len(seg) : IsSink(seg[p])

C9_Witness ==
    /\ pc = "done"
    /\ Len(Segment(1)) = 4
    /\ Len(Segment(2)) = 1
    /\ Len(Segment(3)) = 2

====
